---- MODULE Spec2Model ----
(***************************************************************************)
(* Model of detect_events.py: the interactive selection of the hand marker *)
(* and of the motion nodes, and the frame loop that tracks the approach    *)
(* ratio of the hand to the current target node and records motion events. *)
(***************************************************************************)
EXTENDS Integers, Sequences, FiniteSets, TLC

(***************************************************************************)
(* Program constants.  APPROACH_THRESHOLD is 0.35; it is kept as the       *)
(* integer number of hundredths so that the comparison stays exact.        *)
(***************************************************************************)
APPROACH_THRESHOLD_PCT == 35
APPROACH_BUFFER == 5

(***************************************************************************)
(* Bounds of the model.                                                    *)
(***************************************************************************)
MaxFrame == 15     \* largest frame index processed in the free exploration
MaxLongFrame == 24 \* largest frame index processed in the long and scripted runs
MaxOverdue == 1    \* how far below zero the debounce counter may run
MaxStore == 2      \* largest length of frame_store in the free exploration
MaxBad   == 1      \* largest number of skipped (sentinel) frames
MaxNodes == 3      \* largest length of motion_nodes
MaxRunFrame == 13  \* largest frame index processed in the runs that end
MaxHeader == 3     \* largest number of names in the MARKER_NAMES row

VARIABLES
    pc,             \* "header", "hand", "nodes", "frames", "done", "crashed"
    header,         \* the names of the MARKER_NAMES row
    idx,            \* position of the registry loop in that row
    marker_names,   \* the registry: marker name -> offset
    frequency,      \* FREQUENCY of the header
    frame_count,    \* NO_OF_FRAMES of the header
    hand_marker,
    motion_nodes,
    current_node,
    rows_read,      \* number of data rows the reader has handed out
    current_frame,
    bad_frames,
    event_num,
    motion_start,
    motion_end,
    tracking,
    buffer,
    frame_store,
    events,
    target_idx,
    target_node,
    previous_node,
    step,           \* which branch of the loop body the last row took
    output,         \* the events file this run has written
    warning,        \* the skipped-frames warning this run has printed
    scene           \* position in the scripted two-approach frame sequence

vars == <<pc, header, idx, marker_names, frequency, frame_count, hand_marker,
          motion_nodes, current_node, rows_read, current_frame, bad_frames,
          event_num, motion_start, motion_end, tracking, buffer, frame_store,
          events, target_idx, target_node, previous_node, step, output,
          warning, scene>>

headerVars == <<header, idx, marker_names, frequency, frame_count>>
endVars == <<output, warning>>
promptVars == <<hand_marker, motion_nodes, current_node>>
loopVars == <<rows_read, current_frame, bad_frames, event_num, motion_start,
              motion_end, tracking, buffer, frame_store, events, target_idx,
              target_node, previous_node, step>>

None == "None"

\* The free exploration follows no script.
NoScene == [phase |-> "off", run |-> 0, lo1 |-> 0, hi1 |-> 0, lo2 |-> 0, hi2 |-> 0]

(***************************************************************************)
(* class Point                                                             *)
(***************************************************************************)
Point(x, y, z) == [x |-> x, y |-> y, z |-> z]

PointEq(p, q) == p.x = q.x /\ p.y = q.y /\ p.z = q.z

zero_point == Point(0, 0, 0)

\* math.sqrt on the sums of squares that occur here, all perfect squares
\* because the points of the model lie on one axis.
Sqrt(n) == CHOOSE r \in 0..n : r * r = n

distanceTo(p, q) ==
    Sqrt((p.x - q.x) * (p.x - q.x) + (p.y - q.y) * (p.y - q.y)
         + (p.z - q.z) * (p.z - q.z))

(***************************************************************************)
(* Inputs: the header, the prompts' answers and the data rows.             *)
(***************************************************************************)
HeaderRow == <<"H", "A", "B">>
HeaderRegistry == ("H" :> 0) @@ ("A" :> 1) @@ ("B" :> 2)
\* NO_OF_FRAMES as the header of a capture of that many rows gives it
DeclaredFrames == MaxFrame + MaxBad
Frequencies == {1, 2}
HandInputs == {"H", "X"}
NodeInputs == {"", "A", "B", "H", "X"}

\* A data row, as the point found at each marker offset.  The stations stand
\* on the x axis and the hand moves along it; in a row either every marker
\* was captured, or the hand is between the stations and one station is
\* dropped, that is, reported at (0, 0, 0).
StationA == Point(1, 0, 0)
StationB == Point(5, 0, 0)
Row(hand, a, b) == (0 :> hand) @@ (1 :> a) @@ (2 :> b)
Rows == {Row(Point(x, 0, 0), StationA, StationB) : x \in 0..5}
        \cup {Row(Point(3, 0, 0), Point(0, 0, 0), StationB),
              Row(Point(3, 0, 0), StationA, Point(0, 0, 0))}

\* Python indexing of a list, negative indices counting from the end.
PyIndex(list, i) == IF i < 0 THEN list[Len(list) + i + 1] ELSE list[i + 1]

RowPoint(row, name) == row[marker_names[name]]

\* approach_ratio <= APPROACH_THRESHOLD, for previous_distance > 0
InApproachZone(target_distance, previous_distance) ==
    100 * target_distance <= APPROACH_THRESHOLD_PCT * previous_distance

\* tuple comparison of Python: (distance, frame) pairs in lexicographic order
SampleLeq(s, t) == s[1] < t[1] \/ (s[1] = t[1] /\ s[2] <= t[2])

MinSampleLatest(store) ==
    CHOOSE s \in {store[i] : i \in 1..Len(store)} :
        \A j \in 1..Len(store) :
            s[1] < store[j][1] \/ (s[1] = store[j][1] /\ s[2] >= store[j][2])

\* min(frame_store)
MinSample(store) ==
    CHOOSE s \in {store[i] : i \in 1..Len(store)} :
        \A j \in 1..Len(store) : SampleLeq(s, store[j])

\* round(x / frequency, 2) in hundredths, ties to even
Round2(x, freq) ==
    LET n == 100 * x
        q == n \div freq
        r == n % freq
    IN  IF 2 * r < freq THEN q
        ELSE IF 2 * r > freq THEN q + 1
        ELSE IF q % 2 = 0 THEN q ELSE q + 1

EventRecordZeroBased(num, start, end, freq) ==
    <<num - 1, start, end, Round2(end - start, freq)>>

EventRecordSwapped(num, start, end, freq) ==
    <<num, end, start, Round2(end - start, freq)>>

EventRecord(num, start, end, freq) == <<num, start, end, Round2(end - start, freq)>>

\* buffer <= 0
BufferExpiredEarly(b) == b <= 1

BufferExpiredExactly(b) == b = 0

BufferExpiredLate(b) == b < 0

BufferExpired(b) == b <= 0

\* the first node taken to have index 1
IsFirstNodeOneBased(t_idx) == t_idx = 1

\* target_idx == 0
IsFirstNode(t_idx) == t_idx = 0

\* target_idx == (len(motion_nodes) - 1)
IsLastNodeOffByOne(t_idx, n) == t_idx = n

IsLastNode(t_idx, n) == t_idx = n - 1

NextTargetIdx(t_idx, n) == (t_idx + 1) % n

PreviousNodeIsTarget(nodes, t_idx) == PyIndex(nodes, t_idx)

PreviousNode(nodes, t_idx) == PyIndex(nodes, t_idx - 1)

(***************************************************************************)
(* Initial state: the header has been parsed.                              *)
(***************************************************************************)
Init ==
    /\ pc = "hand"
    /\ header = HeaderRow
    /\ idx = Len(HeaderRow) + 1
    /\ marker_names = HeaderRegistry
    /\ frequency \in Frequencies
    /\ frame_count = DeclaredFrames
    /\ output = None
    /\ warning = None
    /\ hand_marker = None
    /\ motion_nodes = <<>>
    /\ current_node = 1
    /\ rows_read = 0
    /\ current_frame = 1
    /\ bad_frames = 0
    /\ event_num = 1
    /\ motion_start = -1
    /\ motion_end = -1
    /\ tracking = FALSE
    /\ buffer = 0
    /\ frame_store = <<>>
    /\ events = <<>>
    /\ target_idx = 0
    /\ target_node = None
    /\ previous_node = None
    /\ step = "none"
    /\ scene = NoScene

(***************************************************************************)
(* Prompt for the hand marker.                                             *)
(***************************************************************************)
SpecifyHand(input) ==
    /\ pc = "hand"
    /\ hand_marker' = input
    /\ pc' = IF input \in DOMAIN marker_names THEN "nodes" ELSE "hand"
    /\ UNCHANGED <<headerVars, motion_nodes, current_node, loopVars, endVars,
                   scene>>

(***************************************************************************)
(* Prompt for the motion nodes.                                            *)
(***************************************************************************)
\* the test against the hand marker left out
NodeAcceptedAnyMarker(node) ==
    /\ node # ""
    /\ node \in DOMAIN marker_names
    /\ ~(Len(motion_nodes) > 0 /\ node = PyIndex(motion_nodes, -1))

NodeAccepted(node) ==
    /\ node # ""
    /\ node \in DOMAIN marker_names
    /\ node # hand_marker
    /\ ~(Len(motion_nodes) > 0 /\ node = PyIndex(motion_nodes, -1))

SpecifyNode(node) ==
    /\ pc = "nodes"
    /\ IF node = ""
       THEN IF current_node > 2
            THEN /\ pc' = "frames"
                 /\ target_node' = motion_nodes[target_idx + 1]
                 /\ previous_node' = PreviousNode(motion_nodes, target_idx)
                 /\ UNCHANGED <<motion_nodes, current_node>>
            ELSE UNCHANGED <<pc, motion_nodes, current_node, target_node,
                             previous_node>>
       ELSE IF NodeAccepted(node)
            THEN /\ Len(motion_nodes) < MaxNodes
                 /\ motion_nodes' = Append(motion_nodes, node)
                 /\ current_node' = current_node + 1
                 /\ UNCHANGED <<pc, target_node, previous_node>>
            ELSE UNCHANGED <<pc, motion_nodes, current_node, target_node,
                             previous_node>>
    /\ UNCHANGED <<headerVars, hand_marker, rows_read, current_frame,
                   bad_frames, event_num, motion_start, motion_end, tracking,
                   buffer, frame_store, events, target_idx, step, endVars,
                   scene>>

(***************************************************************************)
(* One iteration of the frame loop.                                        *)
(***************************************************************************)
hand_point(row) == RowPoint(row, hand_marker)
target_point(row) == RowPoint(row, target_node)
previous_point(row) == RowPoint(row, previous_node)

IsBadFrame(row) ==
    \/ PointEq(hand_point(row), zero_point)
    \/ PointEq(target_point(row), zero_point)
    \/ PointEq(previous_point(row), zero_point)

SkipFrameWithTick ==
    /\ bad_frames' = bad_frames + 1
    /\ buffer' = buffer - 1
    /\ step' = "skip"
    /\ UNCHANGED <<pc, current_frame, event_num, motion_start, motion_end,
                   tracking, frame_store, events, target_idx,
                   target_node, previous_node>>

\* bad_frames += 1; continue
SkipFrame ==
    /\ bad_frames' = bad_frames + 1
    /\ step' = "skip"
    /\ UNCHANGED <<pc, current_frame, event_num, motion_start, motion_end,
                   tracking, buffer, frame_store, events, target_idx,
                   target_node, previous_node>>

\* the division guarded: the frame is passed over and the loop goes on
DivisionFaultSkipped ==
    /\ pc' = pc
    /\ step' = "fault"
    /\ UNCHANGED <<current_frame, bad_frames, event_num, motion_start,
                   motion_end, tracking, buffer, frame_store, events,
                   target_idx, target_node, previous_node>>

\* target_distance / previous_distance raises ZeroDivisionError
DivisionFault ==
    /\ pc' = "crashed"
    /\ step' = "fault"
    /\ UNCHANGED <<current_frame, bad_frames, event_num, motion_start,
                   motion_end, tracking, buffer, frame_store, events,
                   target_idx, target_node, previous_node>>

\* the sample of the entering frame left out
ApproachNoFirstSample(target_distance) ==
    /\ tracking' = TRUE
    /\ buffer' = IF ~tracking THEN APPROACH_BUFFER ELSE buffer - 1
    /\ frame_store' = IF ~tracking THEN frame_store
                      ELSE Append(frame_store, <<target_distance, current_frame>>)
    /\ step' = IF ~tracking THEN "enter" ELSE "store"
    /\ UNCHANGED <<event_num, motion_start, motion_end, events, target_idx,
                   target_node, previous_node>>

\* the sample stored as (frame, distance)
ApproachSwappedSample(target_distance) ==
    /\ tracking' = TRUE
    /\ buffer' = IF ~tracking THEN APPROACH_BUFFER ELSE buffer - 1
    /\ frame_store' = Append(frame_store, <<current_frame, target_distance>>)
    /\ step' = IF ~tracking THEN "enter" ELSE "store"
    /\ UNCHANGED <<event_num, motion_start, motion_end, events, target_idx,
                   target_node, previous_node>>

\* approach_ratio <= APPROACH_THRESHOLD
Approach(target_distance) ==
    /\ tracking' = TRUE
    /\ buffer' = IF ~tracking THEN APPROACH_BUFFER ELSE buffer - 1
    /\ frame_store' = Append(frame_store, <<target_distance, current_frame>>)
    /\ step' = IF ~tracking THEN "enter" ELSE "store"
    /\ UNCHANGED <<event_num, motion_start, motion_end, events, target_idx,
                   target_node, previous_node>>

\* approach_ratio > APPROACH_THRESHOLD, tracking and buffer <= 0
Depart ==
    LET n == Len(motion_nodes)
        closest == MinSample(frame_store)[2]
        first == IsFirstNode(target_idx)
        last  == ~first /\ IsLastNode(target_idx, n)
    IN  /\ buffer' = buffer - 1
        /\ IF last
           THEN /\ events' = Append(events,
                        EventRecord(event_num, motion_start, closest, frequency))
                /\ event_num' = event_num + 1
                /\ motion_start' = -1
                /\ motion_end' = -1
           ELSE /\ motion_start' = IF first THEN closest ELSE motion_start
                /\ UNCHANGED <<events, event_num, motion_end>>
        /\ tracking' = FALSE
        /\ frame_store' = <<>>
        /\ target_idx' = NextTargetIdx(target_idx, n)
        /\ target_node' = motion_nodes[NextTargetIdx(target_idx, n) + 1]
        /\ previous_node' = PreviousNode(motion_nodes, NextTargetIdx(target_idx, n))
        /\ step' = "depart"

\* tracking and frame_store reset outside the departure branch
NoChangeResetsTracking ==
    /\ buffer' = buffer - 1
    /\ step' = IF tracking THEN "ignore" ELSE "idle"
    /\ tracking' = FALSE
    /\ frame_store' = <<>>
    /\ UNCHANGED <<event_num, motion_start, motion_end, events, target_idx,
                   target_node, previous_node>>

\* approach_ratio > APPROACH_THRESHOLD otherwise
NoChange ==
    /\ buffer' = buffer - 1
    /\ step' = IF tracking THEN "ignore" ELSE "idle"
    /\ UNCHANGED <<event_num, motion_start, motion_end, tracking, frame_store,
                   events, target_idx, target_node, previous_node>>

Frame(row) ==
    /\ pc = "frames"
    /\ rows_read' = rows_read + 1
    /\ UNCHANGED <<headerVars, promptVars, endVars>>
    /\ IF IsBadFrame(row)
       THEN SkipFrame
       ELSE LET target_distance == distanceTo(hand_point(row), target_point(row))
                previous_distance == distanceTo(hand_point(row), previous_point(row))
            IN  IF previous_distance = 0
                THEN DivisionFault
                ELSE /\ pc' = pc
                     /\ bad_frames' = bad_frames
                     /\ current_frame' = current_frame + 1
                     /\ IF InApproachZone(target_distance, previous_distance)
                        THEN Approach(target_distance)
                        ELSE IF tracking /\ BufferExpired(buffer - 1)
                             THEN Depart
                             ELSE NoChange

\* The rows the free exploration feeds: the counters stay within the bounds.
WithinBounds ==
    /\ current_frame' <= MaxFrame + 1
    /\ buffer' >= -MaxOverdue
    /\ bad_frames' <= MaxBad
    /\ Len(frame_store') <= MaxStore

ReadRow == \E row \in Rows : Frame(row) /\ WithinBounds /\ UNCHANGED scene

Next ==
    \/ \E input \in HandInputs : SpecifyHand(input)
    \/ \E node \in NodeInputs : SpecifyNode(node)
    \/ ReadRow

Spec == Init /\ [][Next]_vars

(***************************************************************************)
(* The scripted frame sequence: two motion nodes, and a frame sequence     *)
(* that holds one clean approach-and-departure on the first node followed  *)
(* by one on the second.  The script classifies each row against the node  *)
(* it is at, and scene records how far the sequence has got and the frame  *)
(* indices of the first (lo) and last (hi) frame of each approach.         *)
(***************************************************************************)
FramesInit(nodes, sc) ==
    /\ pc = "frames"
    /\ header = HeaderRow
    /\ idx = Len(HeaderRow) + 1
    /\ marker_names = HeaderRegistry
    /\ frequency \in Frequencies
    /\ output = None
    /\ warning = None
    /\ hand_marker = "H"
    /\ motion_nodes = nodes
    /\ current_node = Len(nodes) + 1
    /\ rows_read = 0
    /\ current_frame = 1
    /\ bad_frames = 0
    /\ event_num = 1
    /\ motion_start = -1
    /\ motion_end = -1
    /\ tracking = FALSE
    /\ buffer = 0
    /\ frame_store = <<>>
    /\ events = <<>>
    /\ target_idx = 0
    /\ target_node = nodes[1]
    /\ previous_node = PreviousNode(nodes, 0)
    /\ step = "none"
    /\ scene = sc

InitClean ==
    /\ frame_count = DeclaredFrames
    /\ \E nodes \in {<<"A", "B">>, <<"B", "A">>} :
           FramesInit(nodes, [NoScene EXCEPT !.phase = "before"])

SceneNode == IF scene.phase \in {"between", "in2"} THEN 2 ELSE 1

SceneStep(row) ==
    LET tgt == RowPoint(row, motion_nodes[SceneNode])
        prv == RowPoint(row, motion_nodes[3 - SceneNode])
        hnd == RowPoint(row, hand_marker)
        bad == zero_point \in {hnd, tgt, prv}
        td  == distanceTo(hnd, tgt)
        pd  == distanceTo(hnd, prv)
        in  == 100 * td <= APPROACH_THRESHOLD_PCT * pd
    IN  IF bad THEN scene' = scene
        ELSE /\ pd > 0
             /\ CASE scene.phase = "before" ->
                       scene' = IF in
                                THEN [scene EXCEPT !.phase = "in1", !.run = 1,
                                          !.lo1 = current_frame, !.hi1 = current_frame]
                                ELSE scene
                  [] scene.phase = "in1" ->
                       IF in
                       THEN scene' = [scene EXCEPT !.run = @ + 1, !.hi1 = current_frame]
                       ELSE /\ scene.run >= APPROACH_BUFFER
                            /\ scene' = [scene EXCEPT !.phase = "between", !.run = 0]
                  [] scene.phase = "between" ->
                       scene' = IF in
                                THEN [scene EXCEPT !.phase = "in2", !.run = 1,
                                          !.lo2 = current_frame, !.hi2 = current_frame]
                                ELSE scene
                  [] scene.phase = "in2" ->
                       IF in
                       THEN scene' = [scene EXCEPT !.run = @ + 1, !.hi2 = current_frame]
                       ELSE /\ scene.run >= APPROACH_BUFFER
                            /\ scene' = [scene EXCEPT !.phase = "after", !.run = 0]
                  [] scene.phase = "after" ->
                       /\ ~in
                       /\ scene' = scene

CleanBounds ==
    /\ current_frame' <= MaxLongFrame + 1
    /\ buffer' >= -MaxOverdue
    /\ bad_frames' <= MaxBad

CleanRow == \E row \in Rows : SceneStep(row) /\ Frame(row) /\ CleanBounds

NextClean == CleanRow

SpecClean == InitClean /\ [][NextClean]_vars

(***************************************************************************)
(* The long run: the node sequence A, B and a frame sequence of valid      *)
(* frames only, long enough for two traversals.                            *)
(***************************************************************************)
InitLong == frame_count = DeclaredFrames /\ FramesInit(<<"A", "B">>, NoScene)

LongBounds ==
    /\ current_frame' = current_frame + 1
    /\ current_frame' <= MaxLongFrame + 1
    /\ buffer' >= -MaxOverdue
    /\ Len(frame_store') <= MaxStore

LongRow == \E row \in Rows : Frame(row) /\ LongBounds /\ UNCHANGED scene

NextLong == LongRow

SpecLong == InitLong /\ [][NextLong]_vars

(***************************************************************************)
(* The whole run: the frame loop on the sequence A, B, then the end of     *)
(* the run.  NO_OF_FRAMES is 0 when the header has no such row or gives 0. *)
(***************************************************************************)
FrameCounts == {0, DeclaredFrames}

CsvHeader == <<"Motion", "Start Frame", "End Frame", "Length (sec)">>

\* csvWriter.writerow(...) for the header and for each event
CsvFile(evs) == <<CsvHeader>> \o evs

\* round((bad_frames / frame_count) * 100, 2), in hundredths of a percent
Percentage(bad, count) == Round2(100 * bad, count)

\* print("Warning: skipped", bad_frames, "frames (" + ... + "%) ...")
Warn(bad, count) ==
    IF count = 0
    THEN /\ pc' = "crashed"
         /\ warning' = warning
    ELSE /\ pc' = "done"
         /\ warning' = [skipped |-> bad, percent |-> Percentage(bad, count)]

\* the rows of the file are exhausted: report, write the events, warn
Finish(io_ok) ==
    /\ pc = "frames"
    /\ output' = IF Len(events) > 0 /\ io_ok THEN CsvFile(events) ELSE output
    /\ IF bad_frames > 0
       THEN Warn(bad_frames, frame_count)
       ELSE pc' = "done" /\ warning' = warning
    /\ UNCHANGED <<headerVars, promptVars, loopVars, scene>>

InitRun ==
    /\ frame_count \in FrameCounts
    /\ FramesInit(<<"A", "B">>, NoScene)

RunBounds ==
    /\ current_frame' <= MaxRunFrame + 1
    /\ buffer' >= -MaxOverdue
    /\ bad_frames' <= MaxBad
    /\ Len(frame_store') <= MaxStore

RunRow == \E row \in Rows : Frame(row) /\ RunBounds /\ UNCHANGED scene

EndOfFile == \E io_ok \in BOOLEAN : Finish(io_ok)

NextRun == RunRow \/ EndOfFile

SpecRun == InitRun /\ [][NextRun]_vars

(***************************************************************************)
(* Building the registry from the MARKER_NAMES row.  header holds the      *)
(* names of the row, so that header[idx] is row[idx].                      *)
(***************************************************************************)
HeaderNames == {"X", "X_1", "Y"}

HeaderRows == UNION {[1..n -> HeaderNames] : n \in 0..MaxHeader}

\* "%s_%d" % (row[idx], suffix)
Suffixed(base, suffix) == base \o "_" \o ToString(suffix)

RECURSIVE TrySuffix(_, _, _)
TrySuffix(base, suffix, registry) ==
    IF Suffixed(base, suffix) \in DOMAIN registry
    THEN TrySuffix(base, suffix + 1, registry)
    ELSE Suffixed(base, suffix)

\* the suffix tried once: if name in marker_names
FreeNameOnce(base, registry) ==
    IF base \in DOMAIN registry THEN Suffixed(base, 1) ELSE base

\* while name in marker_names: suffix += 1; name = "%s_%d" % ...
FreeName(base, registry) ==
    IF base \in DOMAIN registry THEN TrySuffix(base, 1, registry) ELSE base

\* marker_names[name] = offset
Register(registry, name, offset) ==
    [k \in DOMAIN registry \cup {name} |->
        IF k = name THEN offset ELSE registry[k]]

InitRegistry ==
    /\ pc = "header"
    /\ header \in HeaderRows
    /\ idx = 1
    /\ marker_names = <<>>
    /\ frequency \in Frequencies
    /\ frame_count \in FrameCounts
    /\ output = None
    /\ warning = None
    /\ hand_marker = None
    /\ motion_nodes = <<>>
    /\ current_node = 1
    /\ rows_read = 0
    /\ current_frame = 1
    /\ bad_frames = 0
    /\ event_num = 1
    /\ motion_start = -1
    /\ motion_end = -1
    /\ tracking = FALSE
    /\ buffer = 0
    /\ frame_store = <<>>
    /\ events = <<>>
    /\ target_idx = 0
    /\ target_node = None
    /\ previous_node = None
    /\ step = "none"
    /\ scene = NoScene

\* one pass of: for idx in range(1, len(row))
RegisterName ==
    /\ pc = "header"
    /\ idx <= Len(header)
    /\ marker_names' = Register(marker_names,
                                FreeName(header[idx], marker_names), idx - 1)
    /\ idx' = idx + 1
    /\ UNCHANGED <<pc, header, frequency, frame_count, promptVars, loopVars,
                   endVars, scene>>

\* the row is exhausted: break, list the markers, prompt for the hand
EndOfHeader ==
    /\ pc = "header"
    /\ idx > Len(header)
    /\ pc' = "hand"
    /\ UNCHANGED <<headerVars, promptVars, loopVars, endVars, scene>>

NextRegistry == RegisterName \/ EndOfHeader

SpecRegistry == InitRegistry /\ [][NextRegistry]_vars

(***************************************************************************)
(* Properties.                                                             *)
(***************************************************************************)
Last(seq) == seq[Len(seq)]

Extends(new, old) ==
    Len(new) >= Len(old) /\ SubSeq(new, 1, Len(old)) = old

ValidRow(row) ==
    /\ ~IsBadFrame(row)
    /\ distanceTo(hand_point(row), previous_point(row)) > 0

RatioAbove(row) ==
    100 * distanceTo(hand_point(row), target_point(row))
        > APPROACH_THRESHOLD_PCT * distanceTo(hand_point(row), previous_point(row))

Departed ==
    \/ tracking /\ ~tracking'
    \/ frame_store # <<>> /\ frame_store' = <<>>
    \/ target_idx' # target_idx
    \/ events' # events

\* C1 (as stated): while approaching, an excursion of the ratio above the
\* threshold that lasts fewer than approach_buffer consecutive valid frames
\* causes no departure transition, however long the approach has lasted.
\* The excursion in progress on a frame is the run of valid frames since the
\* last accumulated sample.
C1_ShortExcursionNeverDeparts ==
    [][(pc = "frames" /\ tracking
        /\ current_frame - Last(frame_store)[2] < APPROACH_BUFFER)
       => ~Departed]_vars

\* C1 (amended): while approaching, a valid frame with the ratio above the
\* threshold that comes fewer than approach_buffer valid frames after the
\* frame on which the approach was entered causes no departure transition:
\* the flag stays true, the accumulator is kept, the target index does not
\* rotate and no event is emitted.
C1_EarlyExcursionIgnored ==
    [][(/\ tracking
        /\ current_frame - frame_store[1][2] < APPROACH_BUFFER
        /\ current_frame' = current_frame + 1
        /\ \E row \in Rows : ValidRow(row) /\ RatioAbove(row) /\ Frame(row))
       => (/\ tracking'
           /\ frame_store' = frame_store
           /\ target_idx' = target_idx
           /\ events' = events)]_vars

\* An excursion of two frames, right after the frame on which the approach
\* was entered, has been ignored and the hand is back in the approach zone.
C1_Witness ==
    /\ tracking
    /\ step = "store"
    /\ Len(frame_store) = 2
    /\ frame_store[2][2] = frame_store[1][2] + 3

\* C2: the frame index stored with an accumulated sample is the 1-based
\* ordinal position of its row in the input frame sequence, also when
\* earlier rows were skipped as invalid.
C2_FrameIndexIsRowOrdinal ==
    [][Len(frame_store') = Len(frame_store) + 1
       => Last(frame_store')[2] = rows_read']_vars

\* C3: with a node sequence whose first and last entries are the same marker
\* the tracker can enter approach on the first node: some valid frame takes
\* it into approach.
C3_CyclicSequenceCanApproach ==
    (/\ pc = "frames"
     /\ motion_nodes[1] = Last(motion_nodes)
     /\ target_idx = 0
     /\ ~tracking)
    => ENABLED (\E row \in Rows : Frame(row) /\ tracking')

\* C4: a frame in which the hand, the current target node or the current
\* previous node is at (0,0,0) adds exactly 1 to the invalid-frame counter
\* and leaves the approaching flag, the debounce counter, the accumulator,
\* the target index, motion_start and the event list unchanged.
C4_BadFrameOnlyCounts ==
    [][(\E row \in Rows :
            /\ pc = "frames"
            /\ \/ row[marker_names[hand_marker]] = zero_point
               \/ row[marker_names[target_node]] = zero_point
               \/ row[marker_names[previous_node]] = zero_point
            /\ Frame(row))
       => (/\ bad_frames' = bad_frames + 1
           /\ UNCHANGED <<tracking, buffer, frame_store, target_idx,
                          motion_start, events>>)]_vars

\* A frame with a dropped marker has been skipped in the middle of an approach.
C4_Witness ==
    /\ step = "skip"
    /\ tracking
    /\ bad_frames = 1
    /\ Len(frame_store) = 1
    /\ buffer < APPROACH_BUFFER

\* C5: a frame step appends an event if and only if it rotates the target
\* index from the last index back to 0, and no step appends more than one
\* event or changes an event already recorded; hence the number of events
\* equals the number of wraps of the target index.
C5_OneEventPerWrap ==
    [][/\ (Len(events') = Len(events) + 1
           <=> (/\ target_idx = Len(motion_nodes) - 1
                /\ target_idx' = 0
                /\ target_idx' # target_idx))
       /\ Len(events') \in {Len(events), Len(events) + 1}
       /\ Extends(events', events)]_vars

\* The target index has just wrapped.
C5_Witness ==
    /\ step = "depart"
    /\ target_idx = 0
    /\ Len(events) = 1
    /\ event_num = 2

\* C6: event_index - 1 equals the number of recorded events and the k-th
\* recorded event carries index k.
C6_DenseEventIndices ==
    /\ event_num - 1 = Len(events)
    /\ \A k \in 1..Len(events) : events[k][1] = k

C6_Witness ==
    /\ Len(events) = 2
    /\ event_num = 3
    /\ events[2][1] = 2

\* C7: every emitted event has start_frame <= end_frame.
C7_StartNotAfterEnd ==
    \A k \in 1..Len(events) : events[k][2] <= events[k][3]

C7_Witness ==
    /\ Len(events) = 1
    /\ events[1][2] >= 1
    /\ events[1][3] > events[1][2]

\* C8: while frames are processed the target node is nodes[target_idx] and
\* the previous node is nodes[(target_idx - 1) mod n].
C8_TargetAndPreviousFollowIndex ==
    pc \in {"frames", "crashed"}
    => /\ target_node = motion_nodes[target_idx + 1]
       /\ previous_node =
              motion_nodes[((target_idx - 1) % Len(motion_nodes)) + 1]

\* The target index has wrapped to 0 and the previous node is the last node.
C8_Witness ==
    /\ step = "depart"
    /\ target_idx = 0
    /\ Len(events) = 1
    /\ previous_node = Last(motion_nodes)
    /\ previous_node # target_node

IsClosest(store, frame) ==
    \E i \in 1..Len(store) :
        /\ store[i][2] = frame
        /\ \A j \in 1..Len(store) :
               \/ store[i][1] < store[j][1]
               \/ store[i][1] = store[j][1] /\ store[i][2] <= store[j][2]

\* C9: on a confirmed departure from the first (last) node, motion_start
\* (the end frame of the emitted event) is the frame index of the
\* accumulated sample with the minimum distance, the smallest frame index
\* among the samples at that distance; the accumulator
\* [(5,10), (3,11), (4,12)] gives 11.
C9_ClosestSampleChosen ==
    /\ MinSample(<<<<5, 10>>, <<3, 11>>, <<4, 12>>>>)[2] = 11
    /\ [][(tracking /\ ~tracking')
          => /\ target_idx = 0 => IsClosest(frame_store, motion_start')
             /\ (target_idx # 0 /\ target_idx = Len(motion_nodes) - 1)
                    => /\ Len(events') = Len(events) + 1
                       /\ IsClosest(frame_store, Last(events')[3])]_vars

\* The approach was entered on frame 1 and left on frame 6, and the closest
\* sample is the one of frame 3, not the first.
C9_Witness ==
    /\ step = "depart"
    /\ current_frame = 7
    /\ target_idx = 1
    /\ motion_start = 3

\* C10: with two nodes, one clean approach-and-departure on the first node
\* followed by one on the second yields exactly one event, whose start
\* frame lies in the first approach and whose end frame lies in the second.
C10_CleanTraversalOneEvent ==
    /\ scene.phase \in {"before", "in1", "between", "in2"} => events = <<>>
    /\ scene.phase = "after"
           => /\ Len(events) = 1
              /\ events[1][2] \in scene.lo1..scene.hi1
              /\ events[1][3] \in scene.lo2..scene.hi2

\* Both approaches are over and a later frame has been read.
C10_Witness ==
    /\ scene.phase = "after"
    /\ step = "idle"
    /\ Len(events) = 1
    /\ scene.hi1 >= scene.lo1 + APPROACH_BUFFER

\* C11: a valid frame whose hand position coincides with the previous node
\* raises an unhandled fault: the run stops at that frame, no later frame is
\* processed and no output file is written, even when events were recorded.
C11_CoincidenceAbortsRun ==
    /\ [](pc = "crashed" => (~ENABLED NextRun /\ (step = "fault" => output = None)))
    /\ [][(\E row \in Rows :
              /\ pc = "frames"
              /\ ~IsBadFrame(row)
              /\ distanceTo(hand_point(row), previous_point(row)) = 0
              /\ Frame(row))
           => (pc' = "crashed" /\ step' = "fault" /\ output' = None
               /\ UNCHANGED <<current_frame, events, warning>>)]_vars

\* the run has recorded an event and then aborts on a coincident frame
C11_Witness ==
    pc = "crashed" /\ step = "fault" /\ Len(events) = 1 /\ output = None

\* C12: skipped frames never abort the run: whatever NO_OF_FRAMES the header
\* gives (0 and an absent row included), a run that skipped frames reads its
\* rows to the end and ends by printing the warning with the count and the
\* percentage of skipped frames.
C12_SkippedFramesEndInWarning ==
    (pc \in {"done", "crashed"} /\ step # "fault" /\ bad_frames > 0)
        => /\ pc = "done"
           /\ warning # None
           /\ warning.skipped = bad_frames

\* the key of the registry that holds the given offset
KeyOf(offset) == CHOOSE k \in DOMAIN marker_names : marker_names[k] = offset

\* C13: for every list of n header names, duplicates and names of the form
\* X_1 included, the registry has n distinct keys whose offsets are exactly
\* 0..n-1; the i-th name is registered at offset i, under its own name when
\* that is not yet a key and otherwise under name_k for the smallest k >= 1
\* such that name_k is not yet a key.
C13_RegistryIsBijection ==
    LET n == idx - 1
        keys == DOMAIN marker_names
        before(i) == {k \in keys : marker_names[k] < i}
    IN  /\ Cardinality(keys) = n
        /\ {marker_names[k] : k \in keys} = 0..(n - 1)
        /\ \A i \in 0..(n - 1) :
              LET name == header[i + 1]
              IN  IF name \notin before(i)
                  THEN KeyOf(i) = name
                  ELSE \E k \in 1..n :
                          /\ KeyOf(i) = Suffixed(name, k)
                          /\ Suffixed(name, k) \notin before(i)
                          /\ \A j \in 1..(k - 1) :
                                Suffixed(name, j) \in before(i)

\* X is repeated after X_1 was registered as a name of its own
C13_Witness ==
    /\ pc = "hand"
    /\ header = <<"X", "X_1", "X">>
    /\ marker_names = ("X" :> 0) @@ ("X_1" :> 1) @@ ("X_2" :> 2)

\* an input the node prompt may add to the list
Admissible(node) ==
    /\ node \in DOMAIN marker_names
    /\ node # hand_marker
    /\ (motion_nodes = <<>> \/ node # Last(motion_nodes))

\* C14: the node list grows only by an input that is a registered marker
\* name, differs from the hand marker and differs from the last accepted
\* node; a rejected input leaves the list unchanged; the prompt ends only with
\* at least two nodes, so the tracker starts with a list of length >= 2 that
\* does not contain the hand marker and has no two consecutive equal entries.
C14_NodeListWellFormed ==
    /\ [](pc \in {"frames", "crashed"} =>
            /\ Len(motion_nodes) >= 2
            /\ \A i \in 1..Len(motion_nodes) : motion_nodes[i] # hand_marker
            /\ \A i \in 1..(Len(motion_nodes) - 1) :
                  motion_nodes[i] # motion_nodes[i + 1])
    /\ [][
           /\ motion_nodes' # motion_nodes =>
                (pc = "nodes" /\ \E node \in NodeInputs :
                    Admissible(node) /\ motion_nodes' = Append(motion_nodes, node))
           /\ \A node \in NodeInputs :
                (pc = "nodes" /\ ~Admissible(node) /\ SpecifyNode(node))
                    => motion_nodes' = motion_nodes
           /\ (pc = "nodes" /\ pc' # "nodes") =>
                (pc' = "frames" /\ Len(motion_nodes') >= 2)]_vars

\* the tracker has started on a list that returns to its first station
C14_Witness ==
    /\ pc = "frames"
    /\ rows_read = 0
    /\ motion_nodes = <<"A", "B", "A">>
    /\ hand_marker = "H"

\* C15: a departure is confirmed only on a valid frame whose ratio is above
\* the threshold and that comes at least approach_buffer valid frames after
\* the frame on which the current approach was entered.
C15_DepartureOnlyAfterBuffer ==
    [][Departed =>
        /\ tracking
        /\ current_frame' = current_frame + 1
        /\ current_frame - frame_store[1][2] >= APPROACH_BUFFER
        /\ \E row \in Rows : ValidRow(row) /\ RatioAbove(row) /\ Frame(row)]_vars

\* the earliest departure: approach_buffer frames after the entering frame,
\* which is the only sample and so the recorded start
C15_Witness ==
    /\ step = "depart"
    /\ target_idx = 1
    /\ motion_start = current_frame - 1 - APPROACH_BUFFER

\* C17: on a valid frame above the threshold, while approaching and with the
\* debounce counter still positive after its decrement, the approaching flag,
\* the accumulator, the target index, the target and previous nodes,
\* motion_start and the event list are unchanged; only the debounce counter
\* (minus one) and the frame index (plus one) change, and the frame's sample
\* is not appended.
C17_IgnoredFrameOnlyCounts ==
    [][(/\ pc = "frames"
        /\ tracking
        /\ buffer - 1 > 0
        /\ current_frame' = current_frame + 1
        /\ \E row \in Rows : ValidRow(row) /\ RatioAbove(row) /\ Frame(row))
       => /\ buffer' = buffer - 1
          /\ UNCHANGED <<tracking, frame_store, target_idx, target_node,
                         previous_node, motion_start, motion_end, events,
                         event_num, bad_frames, pc>>]_vars

\* two frames above the threshold were ignored during an approach
C17_Witness ==
    /\ step = "ignore"
    /\ tracking
    /\ buffer = APPROACH_BUFFER - 2
    /\ Len(frame_store) = 1

\* C18: between frames the accumulator is empty exactly when the approaching
\* flag is false: it is cleared on every transition out of approaching and
\* holds at least one sample while approaching, so that the minimum is never
\* taken over an empty accumulator and ranges only over samples of the current
\* approach: the first sample is the entering frame and the frames increase.
C18_AccumulatorMatchesTracking ==
    /\ tracking <=> frame_store # <<>>
    /\ tracking =>
        /\ frame_store[1][2] = current_frame - 1 - (APPROACH_BUFFER - buffer)
        /\ \A i \in 1..(Len(frame_store) - 1) :
              frame_store[i][2] < frame_store[i + 1][2]
        /\ Last(frame_store)[2] < current_frame

\* the second approach of a traversal holds two samples of its own
C18_Witness ==
    /\ tracking
    /\ target_idx = 1
    /\ Len(frame_store) = 2
    /\ frame_store[1][2] >= motion_start + APPROACH_BUFFER

\* the tracker holds an approach entered by a single frame in the zone, and
\* the frame being processed is valid and above the threshold
AfterIsolatedCrossing ==
    /\ pc = "frames"
    /\ tracking
    /\ Len(frame_store) = 1
    /\ current_frame' = current_frame + 1
    /\ \E row \in Rows : ValidRow(row) /\ RatioAbove(row) /\ Frame(row)

\* C16 as stated: a single valid frame in the approach zone, entered while not
\* approaching and followed only by valid frames above the threshold, never
\* results in a confirmed departure: the target index does not rotate and no
\* motion_start or motion_end is recorded from it.
C16_IsolatedCrossingFiltered ==
    [][AfterIsolatedCrossing =>
        (tracking' /\ target_idx' = target_idx
         /\ motion_start' = motion_start /\ events' = events)]_vars

\* C16: the isolated crossing is held, not filtered: the first
\* approach_buffer - 1 valid frames above the threshold that follow it confirm
\* no departure, and the approach_buffer-th confirms one whose closest sample
\* is the crossing: the target index rotates, on the first node motion_start
\* is the crossing's frame and on the last node an event ends at it.
C16_IsolatedCrossingHeldThenDeparts ==
    [][AfterIsolatedCrossing =>
        IF current_frame - frame_store[1][2] < APPROACH_BUFFER
        THEN /\ tracking'
             /\ frame_store' = frame_store
             /\ target_idx' = target_idx
             /\ motion_start' = motion_start
             /\ events' = events
        ELSE /\ ~tracking'
             /\ frame_store' = <<>>
             /\ target_idx' = (target_idx + 1) % Len(motion_nodes)
             /\ target_idx = 0 => motion_start' = frame_store[1][2]
             /\ target_idx = Len(motion_nodes) - 1 =>
                    /\ Len(events') = Len(events) + 1
                    /\ Last(events')[3] = frame_store[1][2]]_vars

\* an event whose end is an isolated crossing of the last node, confirmed
\* approach_buffer frames later
C16_Witness ==
    /\ step = "depart"
    /\ Len(events) = 1
    /\ events[1][3] = current_frame - 1 - APPROACH_BUFFER

\* C19: the event list is monotonic: of two consecutive events, the end
\* frame of the earlier is below the start frame of the later.
C19_EventsDoNotOverlap ==
    \A k \in 1..(Len(events) - 1) : events[k][3] < events[k + 1][2]

\* two events, the second starting after the departure that emitted the first
C19_Witness ==
    /\ Len(events) = 2
    /\ events[2][2] > events[1][3] + APPROACH_BUFFER
    /\ events[2][3] > events[2][2]

\* C20: between frames motion_start is unset (-1) exactly when the target
\* index is 0, and motion_end is always unset; so every emitted event carries
\* a start frame recorded during its own traversal: never -1, and never a
\* start left over from the traversal of an earlier event.
C20_StartSetExactlyInsideTraversal ==
    /\ motion_start = -1 <=> target_idx = 0
    /\ motion_end = -1
    /\ motion_start # -1 =>
          /\ motion_start >= 1
          /\ motion_start < current_frame
          /\ events # <<>> => motion_start > Last(events)[3]
    /\ \A k \in 1..Len(events) :
          /\ events[k][2] >= 1
          /\ k > 1 => events[k][2] > events[k - 1][3]

\* inside the second traversal, after the first event was emitted
C20_Witness ==
    /\ Len(events) = 1
    /\ target_idx = 1
    /\ motion_start > events[1][3]
    /\ ~tracking

====
